---- MODULE Spec2Model ----
(***************************************************************************)
(* Model of src/app.py (Relay PDF -> Excel VZZ): the label normalizer,     *)
(* the header-to-year resolver, the table harvester, the per-page table    *)
(* extraction and the reconciliation run of process_pdf.                   *)
(*                                                                         *)
(* Text is modelled as a sequence of characters, each character a string   *)
(* of the alphabet below.  A Python None among texts is PyNone; an         *)
(* Optional number or year is <<>> (None) or <<v>>.                        *)
(***************************************************************************)
EXTENDS Integers, Sequences, FiniteSets, TLC

\* ------------------------------------------------------------------------
\* Characters.  "eacute" stands for a letter with a diacritic (NFKD splits it
\* into "e" and a combining mark, which the ASCII encoding drops); "euro"
\* stands for a non-ASCII character without decomposition (dropped whole).
\* ------------------------------------------------------------------------
AsciiLetters == {"a", "e", "i", "I"}
RomanLetters == {"i", "I"}
Digits == {"1", "2", "5", "7"}
WordChars == AsciiLetters \cup Digits \cup {"eacute"}
JunkChars == {"*"}
PyNone == <<"<None>">>

\* ---- bounds -------------------------------------------------------------
MaxLabelLen == 4
MaxHeaderLen == 3
MaxHarvested == 3
MaxPages == 3
MaxDocPages == 2

\* ---- generic sequence helpers --------------------------------------------
RECURSIVE SeqsUpTo(_, _)
SeqsUpTo(S, n) ==
    IF n = 0 THEN {<<>>}
    ELSE LET shorter == SeqsUpTo(S, n - 1)
         IN shorter \cup {Append(s, c) : s \in {t \in shorter : Len(t) = n - 1}, c \in S}

Drop(s, n) == SubSeq(s, n + 1, Len(s))

RECURSIVE Flatten(_)
Flatten(ss) == IF ss = <<>> THEN <<>> ELSE Head(ss) \o Flatten(Tail(ss))

\* ---- nz, norm (lines 43-50) ----------------------------------------------
nz(s) == IF s = PyNone THEN <<>> ELSE s

RECURSIVE lstrip(_)
lstrip(s) == IF s # <<>> /\ Head(s) = " " THEN lstrip(Tail(s)) ELSE s

RECURSIVE rstrip(_)
rstrip(s) == IF s # <<>> /\ s[Len(s)] = " " THEN rstrip(SubSeq(s, 1, Len(s) - 1)) ELSE s

\* str.strip()
strip(s) == rstrip(lstrip(s))

\* unicodedata.normalize('NFKD', s).encode('ascii', 'ignore').decode('ascii')
RECURSIVE ascii_fold(_)
ascii_fold(s) ==
    IF s = <<>> THEN <<>>
    ELSE (CASE Head(s) = "eacute" -> <<"e">>
            [] Head(s) = "euro" -> <<>>
            [] OTHER -> <<Head(s)>>) \o ascii_fold(Tail(s))

\* re.sub(r"\s+", " ", s)
RECURSIVE collapse_ws(_)
collapse_ws(s) ==
    IF s = <<>> THEN <<>>
    ELSE IF Head(s) = " " THEN <<" ">> \o collapse_ws(lstrip(s))
    ELSE <<Head(s)>> \o collapse_ws(Tail(s))

\* str.lower()
lower(s) == [k \in 1..Len(s) |-> IF s[k] = "I" THEN "i" ELSE s[k]]

norm(s) == lower(collapse_ws(ascii_fold(strip(s))))

\* ---- clean_label (lines 53-62) --------------------------------------------
\* JUNK_RX.sub(" ", s): every maximal run of junk characters becomes one space.
RECURSIVE junk_sub(_)
junk_sub(s) ==
    IF s = <<>> THEN <<>>
    ELSE IF Head(s) \in JunkChars
         THEN IF Len(s) > 1 /\ s[2] \in JunkChars
              THEN junk_sub(Tail(s))
              ELSE <<" ">> \o junk_sub(Tail(s))
    ELSE <<Head(s)>> \o junk_sub(Tail(s))

\* Length of the longest prefix of s made of characters of S.
RECURSIVE RunLen(_, _)
RunLen(s, S) == IF s # <<>> /\ Head(s) \in S THEN 1 + RunLen(Tail(s), S) ELSE 0

At(s, k) == IF k >= 1 /\ k <= Len(s) THEN s[k] ELSE "<end>"

\* (?:\d+\.)+ : length of the longest prefix made of groups "digits then a dot".
RECURSIVE DottedLen(_)
DottedLen(s) ==
    LET d == RunLen(s, Digits)
    IN IF d >= 1 /\ At(s, d + 1) = "." THEN d + 1 + DottedLen(Drop(s, d + 1)) ELSE 0

\* Length matched at position 0 by the alternation of NUM_PREFIX_RX (without the
\* trailing \s*), 0 when no alternative matches.  Alternatives are tried in the
\* order of the pattern; re.I makes [IVXLC] and [a-z] case-insensitive.
num_prefix_body(s) ==
    LET r == RunLen(s, RomanLetters)
        d == RunLen(s, Digits)
    IN CASE r >= 1 /\ At(s, r + 1) = "." -> r + 1
         [] DottedLen(s) > 0 -> DottedLen(s)
         [] d >= 1 /\ At(s, d + 1) = ")" -> d + 1
         [] d >= 1 /\ At(s, d + 1) \in AsciiLetters /\ At(s, d + 2) = ")" -> d + 2
         [] At(s, 1) \in AsciiLetters /\ At(s, 2) = "." /\ At(s, 3) \in Digits ->
                2 + RunLen(Drop(s, 2), Digits)
         [] At(s, 1) \in AsciiLetters /\ At(s, 2) = ")" -> 2
         [] At(s, 1) \in AsciiLetters /\ At(s, 2) = "." -> 2
         [] OTHER -> 0

\* NUM_PREFIX_RX.sub("", s): the pattern is anchored at the start, so at most
\* one prefix (and the whitespace after it) is removed.
num_prefix_sub(s) ==
    LET n == num_prefix_body(s)
    IN IF n = 0 THEN s ELSE lstrip(Drop(s, n))

clean_label(s) == strip(collapse_ws(num_prefix_sub(junk_sub(nz(s)))))

\* The composition that builds the template keys (line 126).
normalize(s) == norm(clean_label(s))

\* ---- synonyms (lines 65-77) ------------------------------------------------
\* SYN maps a normalized key to a display label.  Two entries stand for the two
\* shapes of the table: a value that normalizes back to its key ("dan z prijmu"
\* -> "daň z příjmů") and a value that normalizes to a longer key ("zmena stavu
\* zasob" -> "změna stavu zásob vlastní činnosti").
SYN_KEYS == {<<"a", "e", "e">>, <<"a", "a", "e">>}

SYN(k) ==
    CASE k = <<"a", "e", "e">> -> <<"a", "eacute", "e">>
      [] k = <<"a", "a", "e">> -> <<"a", "a", "e", " ", "a", "i">>

apply_synonyms(s) == IF norm(s) \in SYN_KEYS THEN SYN(norm(s)) ELSE s

\* ---- to_number (lines 81-99) ------------------------------------------------
\* Cells are texts over digits, "(", ")", "-", "minus" (U+2212), " ", "nbsp" and
\* other characters; decimal separators are not part of the cell alphabet, so
\* every parsed value is a whole number.  The result is <<>> (None) or <<v>>.
DigitValue(c) == CASE c = "1" -> 1 [] c = "2" -> 2 [] c = "5" -> 5 [] c = "7" -> 7

NumberChars == Digits \cup {"-", "(", ")"}

RECURSIVE number_filter(_)
number_filter(s) ==
    IF s = <<>> THEN <<>>
    ELSE (CASE Head(s) = "minus" -> <<"-">>
            [] Head(s) \in NumberChars -> <<Head(s)>>
            [] OTHER -> <<>>) \o number_filter(Tail(s))

RECURSIVE DigitsValue(_)
DigitsValue(s) ==
    IF s = <<>> THEN 0 ELSE 10 * DigitsValue(SubSeq(s, 1, Len(s) - 1)) + DigitValue(s[Len(s)])

AllDigits(s) == s # <<>> /\ \A k \in 1..Len(s) : s[k] \in Digits

\* float(s) on a text of digits, "-", "(" and ")": <<>> stands for ValueError.
py_float(s) ==
    IF AllDigits(s) THEN <<DigitsValue(s)>>
    ELSE IF s # <<>> /\ Head(s) = "-" /\ AllDigits(Tail(s)) THEN <<0 - DigitsValue(Tail(s))>>
    ELSE <<>>

to_number(cell) ==
    IF cell = PyNone THEN <<>>
    ELSE LET s == number_filter(cell)
         IN IF s \in {<<>>, <<"-">>, <<"-", "-">>} THEN <<>>
            ELSE IF Head(s) = "(" /\ s[Len(s)] = ")"
                 THEN py_float(<<"-">> \o SubSeq(s, 2, Len(s) - 1))
            ELSE py_float(s)

\* ---- map_header_to_years (lines 168-201) -------------------------------------
\* A header cell is a sequence of words.  YEAR_RX.search finds the first word
\* that is a year 20dd; LABEL_CURRENT / LABEL_PRIOR find a keyword among the
\* words.
YearWords == {"2021", "2022", "2023"}
CurrentWords == {"bezne"}
PriorWords == {"minule"}

WordYear(w) == CASE w = "2021" -> 2021 [] w = "2022" -> 2022 [] w = "2023" -> 2023

\* YEAR_RX.search(nz(c)): <<>> (no match) or <<year>>.
RECURSIVE year_search(_)
year_search(c) ==
    IF c = <<>> THEN <<>>
    ELSE IF Head(c) \in YearWords THEN <<WordYear(Head(c))>>
    ELSE year_search(Tail(c))

HasWord(c, W) == \E k \in 1..Len(c) : c[k] \in W

\* lines 170-178
explicit_years(header_cells) ==
    [k \in 1..Len(header_cells) |-> year_search(nz(header_cells[k]))]

\* lines 182-190
header_roles(header_cells) ==
    [k \in 1..Len(header_cells) |->
        IF HasWord(nz(header_cells[k]), CurrentWords) THEN "curr"
        ELSE IF HasWord(nz(header_cells[k]), PriorWords) THEN "prev"
        ELSE "none"]

\* lines 191-200, a plausible slip: prev_seen is never advanced.
RECURSIVE map_roles_stuck(_, _, _)
map_roles_stuck(roles, reference_year, prev_seen) ==
    IF roles = <<>> THEN <<>>
    ELSE CASE Head(roles) = "curr" ->
                <<<<reference_year>>>> \o map_roles_stuck(Tail(roles), reference_year, prev_seen)
           [] Head(roles) = "prev" ->
                <<<<reference_year - 1 - prev_seen>>>>
                    \o map_roles_stuck(Tail(roles), reference_year, prev_seen)
           [] OTHER -> <<<<>>>> \o map_roles_stuck(Tail(roles), reference_year, prev_seen)

\* lines 191-200
RECURSIVE map_roles(_, _, _)
map_roles(roles, reference_year, prev_seen) ==
    IF roles = <<>> THEN <<>>
    ELSE CASE Head(roles) = "curr" ->
                <<<<reference_year>>>> \o map_roles(Tail(roles), reference_year, prev_seen)
           [] Head(roles) = "prev" ->
                <<<<reference_year - 1 - prev_seen>>>>
                    \o map_roles(Tail(roles), reference_year, prev_seen + 1)
           [] OTHER -> <<<<>>>> \o map_roles(Tail(roles), reference_year, prev_seen)

map_header_to_years(header_cells, reference_year) ==
    LET out == explicit_years(header_cells)
        found_any_year == \E k \in 1..Len(out) : out[k] # <<>>
    IN IF found_any_year THEN out
       ELSE map_roles(header_roles(header_cells), reference_year, 0)

\* ---- harvest_items (lines 211-243) ------------------------------------------
\* LETTERS_RX.search(label): an ASCII letter followed by two or more word
\* characters.
letters_search(label) ==
    \E k \in 1..Len(label) :
        /\ label[k] \in AsciiLetters
        /\ At(label, k + 1) \in WordChars
        /\ At(label, k + 2) \in WordChars

\* A dict keeps its keys in insertion order (process_pdf iterates over them):
\* by_year is a sequence of [year, items], items a sequence of [lbl, val].
DictYears(by_year) == {by_year[k].year : k \in 1..Len(by_year)}

YearPos(by_year, y) == CHOOSE k \in 1..Len(by_year) : by_year[k].year = y

ItemKeys(items) == {items[k].lbl : k \in 1..Len(items)}

ItemPos(items, key) == CHOOSE k \in 1..Len(items) : items[k].lbl = key

\* d[key] = val on an insertion-ordered dict.
item_set(items, key, val) ==
    IF key \in ItemKeys(items)
    THEN [items EXCEPT ![ItemPos(items, key)].val = val]
    ELSE Append(items, [lbl |-> key, val |-> val])

\* setv with a plausible slip: an existing value is kept, not replaced.
setv_keep_first(by_year, y, lbl, val) ==
    LET key == norm(lbl)
        by == IF y \in DictYears(by_year) THEN by_year
              ELSE Append(by_year, [year |-> y, items |-> <<>>])
        p == YearPos(by, y)
    IN IF key \in ItemKeys(by[p].items) THEN by
       ELSE [by EXCEPT ![p].items = item_set(@, key, val)]

\* lines 215-218
setv(by_year, y, lbl, val) ==
    LET key == norm(lbl)
        by == IF y \in DictYears(by_year) THEN by_year
              ELSE Append(by_year, [year |-> y, items |-> <<>>])
    IN [by EXCEPT ![YearPos(by, y)].items = item_set(@, key, val)]

\* line 229
row_label(row) == apply_synonyms(clean_label(row[1]))

\* line 232
row_nums(row) == [k \in 1..(Len(row) - 1) |-> to_number(row[k + 1])]

\* lines 226-234: the row is harvested (none of the three `continue`s is taken).
row_accepted(row) ==
    /\ Len(row) >= 2
    /\ letters_search(row_label(row))
    /\ Len(row_label(row)) >= 3
    /\ \E k \in 1..(Len(row) - 1) : to_number(row[k + 1]) # <<>>

\* lines 238-241: the year of the value at 0-based position idx of nums.
year_for(header_years, idx, ref_year) ==
    LET y == IF idx < Len(header_years) THEN header_years[idx + 1] ELSE <<>>
    IN IF y = <<>> THEN ref_year - idx ELSE y[1]

\* lines 235-242: one iteration of the loop over nums.
harvest_cell(by_year, header_years, row, idx, ref_year) ==
    LET val == row_nums(row)[idx + 1]
    IN IF val = <<>> THEN by_year
       ELSE setv(by_year, year_for(header_years, idx, ref_year), row_label(row), val[1])

RECURSIVE harvest_cells_from(_, _, _, _, _)
harvest_cells_from(by_year, header_years, row, idx, ref_year) ==
    IF idx >= Len(row) - 1 THEN by_year
    ELSE harvest_cells_from(harvest_cell(by_year, header_years, row, idx, ref_year),
                            header_years, row, idx + 1, ref_year)

\* lines 225-242
RECURSIVE harvest_rows(_, _, _, _)
harvest_rows(by_year, header_years, rows, ref_year) ==
    IF rows = <<>> THEN by_year
    ELSE harvest_rows(
            IF row_accepted(Head(rows))
            THEN harvest_cells_from(by_year, header_years, Head(rows), 0, ref_year)
            ELSE by_year,
            header_years, Tail(rows), ref_year)

\* lines 220-242
RECURSIVE harvest_tables(_, _, _)
harvest_tables(by_year, tables, ref_year) ==
    IF tables = <<>> THEN by_year
    ELSE harvest_tables(
            IF Head(tables) = <<>> THEN by_year
            ELSE harvest_rows(by_year, map_header_to_years(Head(tables)[1], ref_year),
                              Tail(Head(tables)), ref_year),
            Tail(tables), ref_year)

harvest_items(tables, ref_year) == harvest_tables(<<>>, tables, ref_year)

\* ---- inputs of the resolver and the harvester ----------------------------------
HeaderCells ==
    { <<"Polozka">>, <<"2022">>, <<"2021">>, <<"bezne">>, <<"minule">>,
      <<"bezne", "minule">>, <<"minule", "2022">>, PyNone }

RefYears == {2023, 2024}

HarvestHeaders ==
    { <<<<"Polozka">>, <<"2022">>, <<"2021">>>>,
      <<<<"Polozka">>, <<"bezne">>, <<"minule">>>>,
      <<<<"Polozka">>, <<"2022">>>>,
      <<<<"Polozka">>>> }

\* Rows of a table: empty, label only, a label without letters, a row without
\* numbers, and rows with one or two numbers ("1.aaa" and "aaa" clean to one
\* key; "*aée" goes through the synonym table).
HarvestRows ==
    { <<>>,
      <<<<"a", "a", "a">>>>,
      <<<<"1", "1">>, <<"5">>>>,
      <<<<"a", "a", "a">>, <<"-">>, <<>>>>,
      <<<<"a", "a", "a">>, <<"5">>>>,
      <<<<"a", "a", "a">>, <<"5">>, <<"(", "7", ")">>>>,
      <<<<"1", ".", "a", "a", "a">>, <<"(", "7", ")">>, <<"5">>>>,
      <<<<"*", "a", "eacute", "e">>, <<"-">>, <<"minus", "5">>>> }

\* ---- extract_tables_from_pages (lines 144-164) ---------------------------------
\* A page is [tables, text, marker]: the candidate tables page.extract_tables()
\* returns, the lines of page.extract_text(), and whether the text holds one of
\* VZZ_MARKERS.  An empty table stands for None or []; an empty row for None or
\* []; a None cell is PyNone.

\* lines 151-155: the rows of a candidate, empty rows dropped, None cells blanked.
RECURSIVE clean_rows(_)
clean_rows(t) ==
    IF t = <<>> THEN <<>>
    ELSE IF Head(t) = <<>> THEN clean_rows(Tail(t))
    ELSE <<[k \in 1..Len(Head(t)) |-> nz(Head(t)[k])]>> \o clean_rows(Tail(t))

\* lines 149-157
RECURSIVE clean_tables(_)
clean_tables(tables) ==
    IF tables = <<>> THEN <<>>
    ELSE IF clean_rows(Head(tables)) # <<>>
         THEN <<clean_rows(Head(tables))>> \o clean_tables(Tail(tables))
    ELSE clean_tables(Tail(tables))

\* lines 159-161: one single-cell row per line that is not blank.
RECURSIVE rough_table(_)
rough_table(lines) ==
    IF lines = <<>> THEN <<>>
    ELSE IF strip(Head(lines)) # <<>> THEN <<<<Head(lines)>>>> \o rough_table(Tail(lines))
    ELSE rough_table(Tail(lines))

Area(t) ==
    Len(t) * (IF t = <<>> THEN 0
              ELSE CHOOSE w \in {Len(t[k]) : k \in 1..Len(t)} :
                        \A k \in 1..Len(t) : Len(t[k]) <= w)

\* The candidate with the largest rows x columns, the first of them on a tie.
Largest(ts) ==
    ts[CHOOSE k \in 1..Len(ts) :
            /\ \A m \in 1..Len(ts) : Area(ts[m]) <= Area(ts[k])
            /\ \A m \in 1..(k - 1) : Area(ts[m]) < Area(ts[k])]

\* What a page adds to all_tables, were only its largest candidate kept.
page_contribution_largest(page) ==
    LET cleaned == clean_tables(page.tables)
    IN IF cleaned = <<>> THEN <<rough_table(page.text)>> ELSE <<Largest(cleaned)>>

\* What a page adds to all_tables, were the text fallback left out.
page_contribution_no_fallback(page) == clean_tables(page.tables)

\* lines 147-163: what a page adds to all_tables.
page_contribution(page) ==
    LET cleaned == clean_tables(page.tables)
    IN IF cleaned = <<>> THEN <<rough_table(page.text)>> ELSE cleaned

RECURSIVE extract_from(_, _)
extract_from(pdf, pages) ==
    IF pages = <<>> THEN <<>>
    ELSE page_contribution(pdf[Head(pages) + 1]) \o extract_from(pdf, Tail(pages))

extract_tables_from_pages(pdf, pages) == extract_from(pdf, pages)

\* ---- pages -----------------------------------------------------------------------
T_1x1 == <<<<<<"a", "a", "a">>>>>>
T_2x3 == << <<<<"Polozka">>, <<"2022">>, <<"2021">>>>,
            <<<<"a", "a", "a">>, <<"5">>, <<"(", "7", ")">>>> >>
T_2x3b == << <<<<"Polozka">>, <<"bezne">>>>, <<>>,
             <<<<"*", "a", "eacute", "e">>, PyNone, <<"(", "7", ")">>>> >>
T_rows_empty == << <<>>, <<>> >>

Pages ==
    { [tables |-> <<>>, text |-> <<>>, marker |-> FALSE],
      [tables |-> <<>>, text |-> <<<<"a", "a", "a">>, <<" ">>, <<"5">>>>, marker |-> TRUE],
      [tables |-> <<<<>>, T_rows_empty>>, text |-> <<<<"a", "a", "a", " ", "5">>>>,
       marker |-> FALSE],
      [tables |-> <<T_2x3>>, text |-> <<<<"a", "a", "a">>>>, marker |-> TRUE],
      [tables |-> <<T_2x3b, <<>>>>, text |-> <<>>, marker |-> FALSE],
      [tables |-> <<T_1x1, T_2x3, T_2x3b>>, text |-> <<>>, marker |-> FALSE] }

\* ---- collect_template_structure (lines 103-127) ---------------------------------
\* A template is [hdr, dcol, old]: the values of E3..J3, the values of D4, D5, ...
\* (a text, empty for a blank or missing cell) and the value the data cells hold
\* before the run.  A header value is [t |-> "none"], [t |-> "int", v |-> n] or
\* [t |-> "str", v |-> words].
TemplateCols == <<"E", "F", "G", "H", "I", "J">>

FirstLabelRow == 4

\* lines 110-117: the year of one header value, <<>> when there is none.
header_value_year(val) ==
    CASE val.t = "int" -> IF 2000 <= val.v /\ val.v <= 2100 THEN <<val.v>>
                          ELSE year_search(<<ToString(val.v)>>)
      [] val.t = "str" -> year_search(val.v)
      [] OTHER -> <<>>

\* lines 107-120: year -> column letter, a later column replacing an earlier one.
template_year_cols(hdr) ==
    LET years == {header_value_year(hdr[k])[1] :
                    k \in {m \in 1..Len(hdr) : header_value_year(hdr[m]) # <<>>}}
    IN [y \in years |->
            TemplateCols[CHOOSE k \in 1..Len(hdr) :
                /\ header_value_year(hdr[k]) = <<y>>
                /\ \A m \in (k + 1)..Len(hdr) : header_value_year(hdr[m]) # <<y>>]]

\* lines 121-126: normalized label -> row, in insertion order, a later row
\* replacing the row of an equal key.
RECURSIVE template_label_rows(_, _, _)
template_label_rows(labels, dcol, r) ==
    IF dcol = <<>> THEN labels
    ELSE template_label_rows(
            IF strip(Head(dcol)) = <<>> THEN labels
            ELSE item_set(labels, norm(clean_label(Head(dcol))), r),
            Tail(dcol), r + 1)

template_labels_of(dcol) == template_label_rows(<<>>, dcol, FirstLabelRow)

TemplateCells(tp) ==
    {<<TemplateCols[c], FirstLabelRow + r - 1>> : c \in 1..Len(TemplateCols), r \in 1..Len(tp.dcol)}

\* ---- detect_vzz_pages (lines 131-142) --------------------------------------------
\* The 0-based indices of the pages to read.
detect_vzz_pages(pdf) ==
    LET hits == {i \in 0..(Len(pdf) - 1) : pdf[i + 1].marker}
    IN IF hits = {} THEN [k \in 1..Len(pdf) |-> k - 1]
       ELSE LET start == CHOOSE i \in hits : \A j \in hits : i <= j
                end == IF Len(pdf) - 1 < start + 4 THEN Len(pdf) - 1 ELSE start + 4
            IN [k \in 1..(end - start + 1) |-> start + k - 1]

\* ---- best_match (lines 205-209) and the loop of process_pdf (lines 294-309) --------
\* process.extractOne with scorer wratio: the first choice with the highest
\* score, None when there is no choice.
best_match(label, choices, wratio) ==
    IF choices = <<>> THEN [lbl |-> <<>>, score |-> 0]
    ELSE LET k == CHOOSE k \in 1..Len(choices) :
                    /\ \A m \in 1..Len(choices) :
                            wratio[<<label, choices[m]>>] <= wratio[<<label, choices[k]>>]
                    /\ \A m \in 1..(k - 1) :
                            wratio[<<label, choices[m]>>] < wratio[<<label, choices[k]>>]
         IN [lbl |-> choices[k], score |-> wratio[<<label, choices[k]>>]]

\* line 291
template_keys_of(template_labels) == [k \in 1..Len(template_labels) |-> template_labels[k].lbl]

\* The (year, label, value) entries in the order the two loops visit them.
RECURSIVE Entries(_)
Entries(by_year) ==
    IF by_year = <<>> THEN <<>>
    ELSE [k \in 1..Len(Head(by_year).items) |->
            [year |-> Head(by_year).year,
             lbl |-> Head(by_year).items[k].lbl,
             val |-> Head(by_year).items[k].val]] \o Entries(Tail(by_year))

\* line 295 with a plausible slip: a year without a column falls into column E.
target_col_default(year_cols, year) ==
    IF year \in DOMAIN year_cols THEN <<year_cols[year]>> ELSE <<"E">>

\* line 295: year_cols.get(year), <<>> for None.
target_col(year_cols, year) ==
    IF year \in DOMAIN year_cols THEN <<year_cols[year]>> ELSE <<>>

\* line 305 with a plausible slip: the value is added to what the cell holds.
fill_cell_add(ws, col, row_idx, value) ==
    [ws EXCEPT ![<<col, row_idx>>] = <<(IF @ = <<>> THEN 0 ELSE @[1]) + value>>]

\* line 305
fill_cell(ws, col, row_idx, value) == [ws EXCEPT ![<<col, row_idx>>] = <<value>>]

\* line 311 with a plausible slip: the warning follows the skips, not the writes.
summary_needed_skipped(filled_any, skipped) == skipped > 0

\* line 311
summary_needed(filled_any, skipped) == ~filled_any

\* What lines 295-309 do with one entry: "skip" (no column), "write",
\* "keyerror" (line 304 raises) or "low".
entry_outcome(e, year_cols, template_labels, wratio, threshold) ==
    IF target_col(year_cols, e.year) = <<>> THEN "skip"
    ELSE LET m == best_match(norm(e.lbl), template_keys_of(template_labels), wratio)
         IN IF m.score >= threshold
            THEN IF m.lbl \in ItemKeys(template_labels) THEN "write" ELSE "keyerror"
            ELSE "low"

\* The cell values after the loop of lines 294-309 has run over entries (up to
\* an entry at which line 304 raises).
RECURSIVE reconcile(_, _, _, _, _, _)
reconcile(ws, entries, year_cols, template_labels, wratio, threshold) ==
    IF entries = <<>> THEN ws
    ELSE LET e == Head(entries)
             o == entry_outcome(e, year_cols, template_labels, wratio, threshold)
             m == best_match(norm(e.lbl), template_keys_of(template_labels), wratio)
         IN IF o = "keyerror" THEN ws
            ELSE reconcile(
                    IF o = "write"
                    THEN fill_cell(ws, target_col(year_cols, e.year)[1],
                                   template_labels[ItemPos(template_labels, m.lbl)].val, e.val)
                    ELSE ws,
                    Tail(entries), year_cols, template_labels, wratio, threshold)

\* ---- inputs of process_pdf ------------------------------------------------------------
NoValue == [t |-> "none", v |-> 0]
IntValue(n) == [t |-> "int", v |-> n]
StrValue(w) == [t |-> "str", v |-> w]

TemplateHeaders ==
    { <<IntValue(2023), StrValue(<<"rok", "2022">>), NoValue, NoValue, NoValue, NoValue>>,
      <<IntValue(2023), IntValue(1999), NoValue, StrValue(<<"rok">>), NoValue, NoValue>>,
      <<IntValue(2022), NoValue, IntValue(2022), NoValue, NoValue, NoValue>>,
      <<IntValue(1999), NoValue, NoValue, NoValue, NoValue, NoValue>> }

TemplateDColumns ==
    { <<>>,
      <<<<"a", "a", "a">>>>,
      <<<<"a", "a", "a">>, <<"I", ".", " ", "a", "eacute", "e">>>>,
      <<<<"1", ".", "a", "a", "a">>, <<" ">>, <<"a", "a", "a">>>>,
      <<<<"*">>, <<"a", "e", "e">>>> }

OldValues == {<<>>, <<9>>}

Templates == [hdr : TemplateHeaders, dcol : TemplateDColumns, old : OldValues]

DocPages ==
    { [tables |-> <<>>, text |-> <<>>, marker |-> FALSE],
      [tables |-> <<>>, text |-> <<<<"a", "a", "a">>, <<" ">>, <<"5">>>>, marker |-> TRUE],
      [tables |-> <<T_2x3>>, text |-> <<<<"a", "a", "a">>>>, marker |-> TRUE],
      [tables |-> <<T_1x1, T_2x3, T_2x3b>>, text |-> <<>>, marker |-> FALSE] }

Docs == SeqsUpTo(DocPages, MaxDocPages)

\* A request: whether the two file names end in .pdf / .xlsx, the year in the
\* PDF's name (<<>> when there is none), threshold and return_log.
Requests ==
    { [pdf |-> TRUE, xlsx |-> TRUE, year |-> <<2023>>, threshold |-> 76, return_log |-> TRUE],
      [pdf |-> TRUE, xlsx |-> TRUE, year |-> <<2023>>, threshold |-> 0, return_log |-> TRUE],
      [pdf |-> TRUE, xlsx |-> TRUE, year |-> <<2023>>, threshold |-> 76, return_log |-> FALSE],
      [pdf |-> FALSE, xlsx |-> TRUE, year |-> <<2023>>, threshold |-> 76, return_log |-> TRUE],
      [pdf |-> TRUE, xlsx |-> FALSE, year |-> <<2023>>, threshold |-> 76, return_log |-> TRUE],
      [pdf |-> TRUE, xlsx |-> TRUE, year |-> <<>>, threshold |-> 76, return_log |-> TRUE] }

\* The scores fuzz.WRatio may give.
Scores == {75, 76}

\* ------------------------------------------------------------------------
VARIABLES pc, x, key1, key2,
          header, ref_year, header_years, row, idx, by_year, n_set,
          page, page_i, all_tables,
          req, tpl, doc, wratio, year_cols, template_labels, tables, pos, ws,
          log_rows, filled_any, skipped, writes, ws_log

normVars == <<x, key1, key2>>
harvVars == <<header, ref_year, header_years, row, idx, by_year, n_set>>
extrVars == <<page, page_i, all_tables>>
harvLocals == <<header, header_years, row, idx, n_set>>
procVars == <<req, tpl, doc, wratio, year_cols, template_labels, tables, pos, ws,
              log_rows, filled_any, skipped, writes, ws_log>>
vars == <<pc, normVars, harvVars, extrVars, procVars>>

NormIdle == x = <<>> /\ key1 = <<>> /\ key2 = <<>>

HarvIdle ==
    /\ header = <<>> /\ ref_year = 0 /\ header_years = <<>> /\ row = <<>>
    /\ idx = 0 /\ by_year = <<>> /\ n_set = 0

NoPage == [tables |-> <<>>, text |-> <<>>, marker |-> FALSE]

ExtrIdle == page = NoPage /\ page_i = 0 /\ all_tables = <<>>

NoRequest == [pdf |-> FALSE, xlsx |-> FALSE, year |-> <<>>, threshold |-> 0, return_log |-> FALSE]
NoTemplate == [hdr |-> <<>>, dcol |-> <<>>, old |-> <<>>]

ProcIdle ==
    /\ req = NoRequest /\ tpl = NoTemplate /\ doc = <<>> /\ wratio = <<>>
    /\ year_cols = <<>> /\ template_labels = <<>> /\ tables = <<>> /\ pos = 0
    /\ ws = <<>> /\ log_rows = <<>> /\ filled_any = FALSE /\ skipped = 0
    /\ writes = <<>> /\ ws_log = <<>>

\* ======================= the label normalizer ==============================
LabelChars == {"a", "I", "1", ".", ")", " ", "*", "eacute", "euro"}

InitNorm ==
    /\ pc = "start"
    /\ x \in SeqsUpTo(LabelChars, MaxLabelLen)
    /\ key1 = <<>>
    /\ key2 = <<>>
    /\ HarvIdle /\ ExtrIdle /\ ProcIdle

NormalizeOnce ==
    /\ pc = "start"
    /\ key1' = normalize(x)
    /\ pc' = "once"
    /\ UNCHANGED <<x, key2, harvVars, extrVars, procVars>>

NormalizeTwice ==
    /\ pc = "once"
    /\ key2' = normalize(key1)
    /\ pc' = "twice"
    /\ UNCHANGED <<x, key1, harvVars, extrVars, procVars>>

NextNorm == NormalizeOnce \/ NormalizeTwice

SpecNorm == InitNorm /\ [][NextNorm]_vars

\* C9: normalize(normalize(x)) = normalize(x) for every label x, where
\* normalize is clean_label followed by norm.
C9_NormalizeIdempotent == pc = "twice" => key2 = key1

\* ======================= map_header_to_years ===============================
InitHeader ==
    /\ pc = "start"
    /\ header \in SeqsUpTo(HeaderCells, MaxHeaderLen)
    /\ ref_year \in RefYears
    /\ header_years = <<>>
    /\ row = <<>> /\ idx = 0 /\ by_year = <<>> /\ n_set = 0
    /\ NormIdle /\ ExtrIdle /\ ProcIdle

ResolveHeader ==
    /\ pc = "start"
    /\ header_years' = map_header_to_years(header, ref_year)
    /\ pc' = "resolved"
    /\ UNCHANGED <<header, ref_year, row, idx, by_year, n_set, normVars, extrVars, procVars>>

NextHeader == ResolveHeader

SpecHeader == InitHeader /\ [][NextHeader]_vars

IsCurrentCell(c) == HasWord(nz(c), CurrentWords)
IsPriorCell(c) == ~IsCurrentCell(c) /\ HasWord(nz(c), PriorWords)
HasYearWord(c) == HasWord(nz(c), YearWords)
NoExplicitYear == \A k \in 1..Len(header) : ~HasYearWord(header[k])

\* C8: the result has one entry per header cell.  Without any explicit year in
\* the header, a 'current' cell resolves to reference_year, the j-th 'prior'
\* cell (left to right) to reference_year - j, any other cell stays unresolved.
\* With an explicit year somewhere in the header, a cell without a year word of
\* its own stays unresolved whatever role keyword it carries, and a cell with
\* one resolves to a year written in that cell.
C8_RoleTier ==
    pc = "resolved" =>
        /\ Len(header_years) = Len(header)
        /\ \A k \in 1..Len(header) :
            LET c == header[k]
                j == Cardinality({m \in 1..k : IsPriorCell(header[m])})
            IN IF NoExplicitYear
               THEN /\ IsCurrentCell(c) => header_years[k] = <<ref_year>>
                    /\ IsPriorCell(c) => header_years[k] = <<ref_year - j>>
                    /\ (~IsCurrentCell(c) /\ ~IsPriorCell(c)) => header_years[k] = <<>>
               ELSE /\ ~HasYearWord(c) => header_years[k] = <<>>
                    /\ HasYearWord(c) =>
                         \E m \in 1..Len(c) :
                            c[m] \in YearWords /\ header_years[k] = <<WordYear(c[m])>>

\* A header without explicit years holding a current cell and two prior cells,
\* resolved: the second prior cell got reference_year - 2.
C8_Witness ==
    /\ pc = "resolved"
    /\ NoExplicitYear
    /\ \E k \in 1..Len(header) : IsCurrentCell(header[k])
    /\ Cardinality({m \in 1..Len(header) : IsPriorCell(header[m])}) >= 2
    /\ \E k \in 1..Len(header) : header_years[k] = <<ref_year - 2>>

\* ======================= harvest_items ======================================
\* The tables, their header and their rows are read as the loops reach them;
\* n_set counts the values stored so far, at most MaxHarvested in a document.
InitHarvest ==
    /\ pc = "tables"
    /\ ref_year \in RefYears
    /\ header = <<>> /\ header_years = <<>> /\ row = <<>>
    /\ idx = 0 /\ by_year = <<>> /\ n_set = 0
    /\ NormIdle /\ ExtrIdle /\ ProcIdle

\* line 221: an empty table is skipped.
SkipEmptyTable ==
    /\ pc = "tables"
    /\ UNCHANGED vars

\* lines 223-224: the first row is the header.
BeginTable ==
    /\ pc = "tables"
    /\ \E h \in HarvestHeaders :
        /\ header' = h
        /\ header_years' = map_header_to_years(h, ref_year)
    /\ pc' = "rows"
    /\ UNCHANGED <<ref_year, row, idx, by_year, n_set, normVars, extrVars, procVars>>

\* lines 226-234: a row that is empty, too short, without a label or without a
\* number is skipped.
SkipRow ==
    /\ pc = "rows"
    /\ \E r \in HarvestRows : ~row_accepted(r) /\ row' = r
    /\ UNCHANGED <<pc, header, ref_year, header_years, idx, by_year, n_set, normVars, extrVars, procVars>>

BeginRow ==
    /\ pc = "rows"
    /\ \E r \in HarvestRows :
        /\ row_accepted(r)
        /\ n_set + Cardinality({k \in 1..(Len(r) - 1) : to_number(r[k + 1]) # <<>>})
                <= MaxHarvested
        /\ row' = r
    /\ idx' = 0
    /\ pc' = "cols"
    /\ UNCHANGED <<header, ref_year, header_years, by_year, n_set, normVars, extrVars, procVars>>

\* lines 236-237
SkipCell ==
    /\ pc = "cols" /\ idx < Len(row) - 1
    /\ row_nums(row)[idx + 1] = <<>>
    /\ idx' = idx + 1
    /\ UNCHANGED <<pc, header, ref_year, header_years, row, by_year, n_set, normVars, extrVars, procVars>>

\* lines 238-242
HarvestCell ==
    /\ pc = "cols" /\ idx < Len(row) - 1
    /\ row_nums(row)[idx + 1] # <<>>
    /\ by_year' = harvest_cell(by_year, header_years, row, idx, ref_year)
    /\ idx' = idx + 1
    /\ n_set' = n_set + 1
    /\ UNCHANGED <<pc, header, ref_year, header_years, row, normVars, extrVars, procVars>>

EndRow ==
    /\ pc = "cols" /\ idx = Len(row) - 1
    /\ pc' = "rows"
    /\ UNCHANGED <<header, ref_year, header_years, row, idx, by_year, n_set, normVars, extrVars, procVars>>

EndTable ==
    /\ pc = "rows"
    /\ pc' = "tables"
    /\ UNCHANGED <<header, ref_year, header_years, row, idx, by_year, n_set, normVars, extrVars, procVars>>

\* line 243
ReturnHarvest ==
    /\ pc = "tables"
    /\ pc' = "returned"
    /\ UNCHANGED <<header, ref_year, header_years, row, idx, by_year, n_set, normVars, extrVars, procVars>>

NextHarvest ==
    \/ SkipEmptyTable \/ BeginTable \/ SkipRow \/ BeginRow
    \/ SkipCell \/ HarvestCell \/ EndRow \/ EndTable \/ ReturnHarvest

SpecHarvest == InitHarvest /\ [][NextHarvest]_vars

\* The (year, key, value) triples a HarvestMap holds.
Triples(by) ==
    UNION {{<<by[i].year, by[i].items[j].lbl, by[i].items[j].val>> :
                j \in 1..Len(by[i].items)} : i \in 1..Len(by)}

\* The loop over nums has just stored the value of the cell before idx.
JustHarvested == pc = "cols" /\ idx >= 1 /\ row_nums(row)[idx] # <<>>

\* C1: a number in the k-th value column is stored under the year resolved for
\* that column's own header cell (the k-th cell after the label cell) when that
\* cell is resolved, and under reference_year - k only when it is unresolved or
\* missing.
C1_ValueUnderOwnHeaderYear ==
    JustHarvested =>
        LET k == idx - 1
            own == IF k + 2 <= Len(header_years) THEN header_years[k + 2] ELSE <<>>
            y == IF own # <<>> THEN own[1] ELSE ref_year - k
        IN <<y, norm(row_label(row)), row_nums(row)[idx][1]>> \in Triples(by_year)

\* C7: the map never holds two entries for one year or two values for one
\* (year, key); a harvested cell replaces the value of its own key with its
\* value and leaves every other key as it was; no other step changes the map.
C7_OneEntryPerKey ==
    /\ \A i, j \in 1..Len(by_year) : by_year[i].year = by_year[j].year => i = j
    /\ \A i \in 1..Len(by_year) : \A j, m \in 1..Len(by_year[i].items) :
            by_year[i].items[j].lbl = by_year[i].items[m].lbl => j = m

C7_HarvestStep ==
    IF pc = "cols" /\ idx' = idx + 1 /\ row_nums(row)[idx + 1] # <<>>
    THEN LET y == year_for(header_years, idx, ref_year)
             key == norm(row_label(row))
         IN Triples(by_year') =
                {t \in Triples(by_year) : ~(t[1] = y /\ t[2] = key)}
                    \cup {<<y, key, row_nums(row)[idx + 1][1]>>}
    ELSE by_year' = by_year

C7_LastWriteWins == []C7_OneEntryPerKey /\ [][C7_HarvestStep]_vars

\* A cell is about to be harvested whose (year, key) already holds another
\* value from an earlier cell.
C7_Witness ==
    /\ pc = "cols" /\ idx < Len(row) - 1
    /\ row_nums(row)[idx + 1] # <<>>
    /\ \E t \in Triples(by_year) :
        /\ t[1] = year_for(header_years, idx, ref_year)
        /\ t[2] = norm(row_label(row))
        /\ t[3] # row_nums(row)[idx + 1][1]

\* ======================= extract_tables_from_pages ===========================
\* The pages are read as the loop reaches them; page is the page just read.
InitExtract ==
    /\ pc = "pages"
    /\ page = NoPage /\ page_i = 0 /\ all_tables = <<>>
    /\ NormIdle /\ HarvIdle /\ ProcIdle

\* lines 147-157 and 163: a page with at least one non-empty candidate table.
ExtractPageTables ==
    /\ pc = "pages" /\ page_i < MaxPages
    /\ \E p \in Pages :
        /\ clean_tables(p.tables) # <<>>
        /\ page' = p
        /\ all_tables' = all_tables \o page_contribution(p)
    /\ page_i' = page_i + 1
    /\ UNCHANGED <<pc, normVars, harvVars, procVars>>

\* lines 158-163: a page without one falls back to its text lines.
ExtractPageText ==
    /\ pc = "pages" /\ page_i < MaxPages
    /\ \E p \in Pages :
        /\ clean_tables(p.tables) = <<>>
        /\ page' = p
        /\ all_tables' = all_tables \o page_contribution(p)
    /\ page_i' = page_i + 1
    /\ UNCHANGED <<pc, normVars, harvVars, procVars>>

\* line 164
ReturnTables ==
    /\ pc = "pages"
    /\ pc' = "returned"
    /\ UNCHANGED <<normVars, harvVars, extrVars, procVars>>

NextExtract == ExtractPageTables \/ ExtractPageText \/ ReturnTables

SpecExtract == InitExtract /\ [][NextExtract]_vars

NonEmptyCandidates(p) ==
    SelectSeq(p.tables, LAMBDA t : \E k \in 1..Len(t) : t[k] # <<>>)

C3_PageStep ==
    page_i' = page_i + 1 =>
        LET cands == NonEmptyCandidates(page')
            n == IF cands = <<>> THEN 1 ELSE Len(cands)
        IN /\ Len(all_tables') = Len(all_tables) + n
           /\ SubSeq(all_tables', 1, Len(all_tables)) = all_tables
           /\ \A k \in 1..Len(cands) :
                LET kept == all_tables'[Len(all_tables) + k]
                    rows == SelectSeq(cands[k], LAMBDA r : r # <<>>)
                IN /\ Len(kept) = Len(rows)
                   /\ \A r \in 1..Len(rows) : \A c \in 1..Len(rows[r]) :
                        kept[r][c] = IF rows[r][c] = PyNone THEN <<>> ELSE rows[r][c]
           /\ cands = <<>> =>
                \A r \in 1..Len(all_tables'[Len(all_tables') ]) :
                    Len(all_tables'[Len(all_tables')][r]) = 1

LogEntry(kind, year, lbl, val, mlbl, score) ==
    [kind |-> kind, year |-> year, lbl |-> lbl, val |-> val, mlbl |-> mlbl, score |-> score]

Note(kind) == LogEntry(kind, 0, <<>>, 0, <<>>, 0)

InitProcess ==
    /\ pc = "request"
    /\ req \in Requests
    /\ tpl = NoTemplate /\ doc = <<>> /\ wratio = <<>>
    /\ year_cols = <<>> /\ template_labels = <<>> /\ tables = <<>> /\ pos = 0
    /\ ws = <<>> /\ log_rows = <<>> /\ filled_any = FALSE /\ skipped = 0
    /\ writes = <<>> /\ ws_log = <<>>
    /\ NormIdle /\ HarvIdle /\ ExtrIdle

\* lines 254-262: HTTP 400 for a wrong file name.
RejectRequest ==
    /\ pc = "request"
    /\ ~req.pdf \/ ~req.xlsx \/ req.year = <<>>
    /\ pc' = "http400"
    /\ UNCHANGED <<normVars, harvVars, extrVars, procVars>>

\* line 263
AcceptRequest ==
    /\ pc = "request"
    /\ req.pdf /\ req.xlsx /\ req.year # <<>>
    /\ ref_year' = req.year[1]
    /\ pc' = "template"
    /\ UNCHANGED <<normVars, harvLocals, by_year, extrVars, procVars>>

\* lines 269-271: HTTP 400 for a template without year columns.
RejectTemplate ==
    /\ pc = "template"
    /\ \E tp \in Templates :
        /\ DOMAIN template_year_cols(tp.hdr) = {}
        /\ tpl' = tp
    /\ pc' = "http400"
    /\ UNCHANGED <<normVars, harvVars, extrVars, req, doc, wratio, year_cols,
                   template_labels, tables, pos, ws, log_rows, filled_any, skipped,
                   writes, ws_log>>

\* lines 269-280: the template's index and the two notes about missing years.
LoadTemplate ==
    /\ pc = "template"
    /\ \E tp \in Templates :
        LET yc == template_year_cols(tp.hdr)
        IN /\ DOMAIN yc # {}
           /\ tpl' = tp
           /\ year_cols' = yc
           /\ template_labels' = template_labels_of(tp.dcol)
           /\ ws' = [c \in TemplateCells(tp) |-> tp.old]
           /\ log_rows' =
                (IF ref_year \notin DOMAIN yc
                 THEN <<LogEntry("ref_year_missing", ref_year, <<>>, 0, <<>>, 0)>> ELSE <<>>)
                \o (IF (ref_year - 1) \notin DOMAIN yc
                    THEN <<LogEntry("prior_year_missing", ref_year - 1, <<>>, 0, <<>>, 0)>>
                    ELSE <<>>)
    /\ pc' = "pdf"
    /\ UNCHANGED <<normVars, harvVars, extrVars, req, doc, wratio, tables, pos,
                   filled_any, skipped, writes, ws_log>>

\* lines 283-293: the tables of the detected pages and the harvested map.  wratio
\* is the scorer's (fixed) answer for every pair the loop can ask about.
ExtractAndHarvest ==
    /\ pc = "pdf"
    /\ \E d \in Docs :
        LET ts == extract_tables_from_pages(d, detect_vzz_pages(d))
            by == harvest_items(ts, ref_year)
            es == Entries(by)
            pairs == {norm(es[k].lbl) : k \in 1..Len(es)} \X ItemKeys(template_labels)
        IN /\ doc' = d
           /\ tables' = ts
           /\ by_year' = by
           /\ wratio' \in [pairs -> Scores]
    /\ pos' = 1
    /\ filled_any' = FALSE
    /\ skipped' = 0
    /\ pc' = "loop"
    /\ UNCHANGED <<normVars, harvLocals, ref_year, extrVars, req, tpl, year_cols,
                   template_labels, ws, log_rows, writes, ws_log>>

CurrentEntry == Entries(by_year)[pos]

CurrentOutcome ==
    entry_outcome(CurrentEntry, year_cols, template_labels, wratio, req.threshold)

CurrentMatch == best_match(norm(CurrentEntry.lbl), template_keys_of(template_labels), wratio)

InLoop == pc = "loop" /\ pos <= Len(Entries(by_year))

\* lines 296-300
SkipYearEntry ==
    /\ InLoop /\ CurrentOutcome = "skip"
    /\ skipped' = skipped + 1
    /\ log_rows' = Append(log_rows,
            LogEntry("skip", CurrentEntry.year, CurrentEntry.lbl, CurrentEntry.val, <<>>, 0))
    /\ pos' = pos + 1
    /\ UNCHANGED <<pc, normVars, harvVars, extrVars, req, tpl, doc, wratio, year_cols,
                   template_labels, tables, ws, filled_any, writes, ws_log>>

\* lines 302-306
WriteEntry ==
    /\ InLoop /\ CurrentOutcome = "write"
    /\ LET col == target_col(year_cols, CurrentEntry.year)[1]
           row_idx == template_labels[ItemPos(template_labels, CurrentMatch.lbl)].val
       IN /\ ws' = fill_cell(ws, col, row_idx, CurrentEntry.val)
          /\ writes' = Append(writes, [entry |-> pos, col |-> col, row |-> row_idx,
                                       val |-> CurrentEntry.val])
    /\ filled_any' = TRUE
    /\ pos' = pos + 1
    /\ UNCHANGED <<pc, normVars, harvVars, extrVars, req, tpl, doc, wratio, year_cols,
                   template_labels, tables, log_rows, skipped, ws_log>>

\* lines 302-304: the template has no label, best_match answers ("", 0), the
\* threshold lets it pass and template_labels[""] raises KeyError.
RaiseKeyError ==
    /\ InLoop /\ CurrentOutcome = "keyerror"
    /\ pc' = "crashed"
    /\ UNCHANGED <<normVars, harvVars, extrVars, procVars>>

\* lines 307-309
LogLowScore ==
    /\ InLoop /\ CurrentOutcome = "low"
    /\ skipped' = skipped + 1
    /\ log_rows' = Append(log_rows,
            LogEntry("low", 0, CurrentEntry.lbl, CurrentEntry.val,
                     CurrentMatch.lbl, CurrentMatch.score))
    /\ pos' = pos + 1
    /\ UNCHANGED <<pc, normVars, harvVars, extrVars, req, tpl, doc, wratio, year_cols,
                   template_labels, tables, ws, filled_any, writes, ws_log>>

\* lines 311-312
Summary ==
    /\ pc = "loop" /\ pos > Len(Entries(by_year))
    /\ log_rows' = IF summary_needed(filled_any, skipped)
                   THEN Append(log_rows, Note("nothing_written")) ELSE log_rows
    /\ pc' = "logsheet"
    /\ UNCHANGED <<normVars, harvVars, extrVars, req, tpl, doc, wratio, year_cols,
                   template_labels, tables, pos, ws, filled_any, skipped, writes, ws_log>>

\* lines 315-336: the _LOG sheet (when asked for) and the response.
Respond ==
    /\ pc = "logsheet"
    /\ ws_log' = IF req.return_log
                 THEN <<Note("source"), LogEntry("reference_year", ref_year, <<>>, 0, <<>>, 0),
                        LogEntry("threshold", 0, <<>>, 0, <<>>, req.threshold),
                        Note("blank"), Note("title")>> \o log_rows
                 ELSE <<>>
    /\ pc' = "done"
    /\ UNCHANGED <<normVars, harvVars, extrVars, req, tpl, doc, wratio, year_cols,
                   template_labels, tables, pos, ws, log_rows, filled_any, skipped, writes>>

Next ==
    \/ RejectRequest \/ AcceptRequest \/ RejectTemplate \/ LoadTemplate
    \/ ExtractAndHarvest \/ SkipYearEntry \/ WriteEntry \/ RaiseKeyError
    \/ LogLowScore \/ Summary \/ Respond

Spec == InitProcess /\ [][Next]_vars

LoopOver == pc \in {"logsheet", "done"}

LowEntryOf(e, m) == LogEntry("low", 0, e.lbl, e.val, m.lbl, m.score)

SkipEntryOf(e) == LogEntry("skip", e.year, e.lbl, e.val, <<>>, 0)

Count(log, entry) == Cardinality({i \in 1..Len(log) : log[i] = entry})

RowOfLabel(lbl) == template_labels[ItemPos(template_labels, lbl)].val

\* C2: for an entry whose year has a template column, the loop writes the value
\* into (row of the best match, column of the year) and logs nothing when the
\* best score is >= threshold, and appends exactly one low-confidence entry and
\* writes nothing when it is below.
C2_LoopStep ==
    (InLoop /\ target_col(year_cols, CurrentEntry.year) # <<>> /\ (pc' # pc \/ pos' # pos)) =>
        IF CurrentMatch.score >= req.threshold
        THEN /\ CurrentMatch.lbl \in ItemKeys(template_labels)
             /\ ws' = [ws EXCEPT ![<<target_col(year_cols, CurrentEntry.year)[1],
                                     RowOfLabel(CurrentMatch.lbl)>>] = <<CurrentEntry.val>>]
             /\ log_rows' = log_rows
        ELSE /\ ws' = ws
             /\ log_rows' = Append(log_rows, LowEntryOf(CurrentEntry, CurrentMatch))

C2_ThresholdDecidesWrite == [][C2_LoopStep]_vars

\* The pages of the document on which a table was detected.
NoTablesDetected == \A k \in 1..Len(doc) : NonEmptyCandidates(doc[k]) = <<>>

AfterExtract == pc \in {"loop", "logsheet", "done", "crashed"}

\* C4 (as claimed): a document without any table never gets a workbook back.
C4_NoTablesIsFatal == pc = "done" => ~NoTablesDetected

\* C4 (amended): for a document without any table the run is not aborted: every
\* page read contributes one single-column table of its text lines, nothing is
\* harvested, no cell is written or changed, and once the loop is over the
\* summary warning is the last log entry of the workbook that is returned.
C4_NoTablesCompletesUnfilled ==
    (AfterExtract /\ NoTablesDetected) =>
        /\ pc # "crashed"
        /\ Len(tables) = Len(detect_vzz_pages(doc))
        /\ \A k \in 1..Len(tables) : \A r \in 1..Len(tables[k]) : Len(tables[k][r]) = 1
        /\ by_year = <<>>
        /\ writes = <<>>
        /\ \A c \in DOMAIN ws : ws[c] = tpl.old
        /\ LoopOver => (log_rows # <<>> /\ log_rows[Len(log_rows)] = Note("nothing_written"))

\* A document of at least one page, none with a table, some with text, has been
\* answered with a workbook.
C4_Witness ==
    /\ pc = "done"
    /\ Len(doc) >= 1
    /\ NoTablesDetected
    /\ \E k \in 1..Len(tables) : tables[k] # <<>>

\* C5: the summary warning is in the log once the loop is over exactly when no
\* cell was written; it is then the last entry and occurs once; before the loop
\* is over the log never holds it.
C5_SummaryWarning ==
    /\ ~LoopOver => Count(log_rows, Note("nothing_written")) = 0
    /\ LoopOver =>
        /\ pos > Len(Entries(by_year))
        /\ Count(log_rows, Note("nothing_written")) = (IF writes = <<>> THEN 1 ELSE 0)
        /\ writes = <<>> => log_rows[Len(log_rows)] = Note("nothing_written")

\* A finished run without a write whose log holds entries before the warning.
C5_Witness ==
    /\ pc = "done"
    /\ writes = <<>>
    /\ Len(Entries(by_year)) >= 2
    /\ Len(log_rows) >= 3
    /\ log_rows[Len(log_rows)] = Note("nothing_written")

\* C6: running the loop again over the filled sheet, with the same map, index
\* and threshold, leaves every cell as the first run left it.
C6_FillIdempotent ==
    LoopOver =>
        reconcile(ws, Entries(by_year), year_cols, template_labels, wratio, req.threshold) = ws

\* A finished run in which two entries wrote different values into one cell.
C6_Witness ==
    /\ pc = "done"
    /\ \E i, j \in 1..Len(writes) :
        /\ i < j
        /\ writes[i].col = writes[j].col /\ writes[i].row = writes[j].row
        /\ writes[i].val # writes[j].val

\* C10: an entry whose year has no template column gets exactly one skip entry
\* (year, label, value) once the loop has passed it, none before, and never a
\* write; the sheet keeps its cells, and a cell that differs from the template
\* lies in the column of a template year and in a row of the label index.
C10_OnlyTemplateYears ==
    LET es == Entries(by_year)
    IN /\ \A k \in 1..Len(es) :
            es[k].year \notin DOMAIN year_cols =>
                /\ Count(log_rows, SkipEntryOf(es[k])) = (IF k < pos THEN 1 ELSE 0)
                /\ \A i \in 1..Len(writes) : writes[i].entry # k
       /\ pc \notin {"request", "template", "http400"} => DOMAIN ws = TemplateCells(tpl)
       /\ \A c \in DOMAIN ws :
            ws[c] # tpl.old =>
                /\ \E y \in DOMAIN year_cols : year_cols[y] = c[1]
                /\ \E k \in 1..Len(template_labels) : template_labels[k].val = c[2]

\* A finished run that skipped an entry for a missing year and wrote another.
C10_Witness ==
    /\ pc = "done"
    /\ writes # <<>>
    /\ \E k \in 1..Len(Entries(by_year)) : Entries(by_year)[k].year \notin DOMAIN year_cols
    /\ \E c \in DOMAIN ws : ws[c] # tpl.old

====
